---- MODULE Spec2Model ----
(***************************************************************************)
(* Configuration resolution of UECellTracker (src/src/parse.rs):           *)
(* command line -> Arguments::build -> merge with the persisted record     *)
(* (or seeding of a fresh record) -> flattening into total structures.     *)
(*                                                                         *)
(* An Option<T> is modelled as a sequence of length at most one:           *)
(* None is << >> and Some(v) is << v >>.                                   *)
(***************************************************************************)
EXTENDS Integers, Sequences, FiniteSets, TLC

VARIABLES store, pc, cli, result, flat

vars == <<store, pc, cli, result, flat>>

\* ------------------------------------------------------------------ bounds

\* At most this many section leaves are given on one command line (the
\* three top-level scalars are unrestricted).
MaxCliLeaves == 1

\* ------------------------------------------------------------ Option<T>

None == << >>

Some(v) == << v >>

is_none(o) == o = None

is_some(o) == o # None

\* Option::or: self if it is Some, otherwise the argument.
or(o, other) == IF is_some(o) THEN o ELSE other

\* The payload of a Some; only applied where is_some was tested.
unwrap(o) == o[1]

\* ------------------------------------------------------------- enumerations

Scenario == {"TrackUeAndEstimateTransportCapacity", "TrackCellDciOnly", "PerformMeasurement"}

CellApiConfig == {"Milesight", "DevicePublisher"}

DynamicValue == {"FixedMs", "RttFactor"}

\* ------------------------------------------------------------ Default Table

DEFAULT_SCENARIO == "TrackUeAndEstimateTransportCapacity"

DEFAULT_VERBOSE == TRUE

DEFAULT_CELL_API == "Milesight"

DEFAULT_MILESIGHT_ADDRESS == "http://127.0.0.1:8080"

DEFAULT_MILESIGHT_USER == "root"

DEFAULT_MILESIGHT_AUTH == "root-password"

DEFAULT_DEVPUB_ADDRESS == "127.0.0.1"

DEFAULT_DEVPUB_AUTH == "some_auth"

DEFAULT_NG_PATH == "/dev_ws/dependencies/ng-scope/build_x86/ngscope/src/ngscope"

DEFAULT_NG_LOCAL_ADDR == "0.0.0.0:9191"

DEFAULT_NG_SERVER_ADDR == "0.0.0.0:6767"

DEFAULT_NG_LOG_FILE == "./.ng_scope_log.txt"

DEFAULT_NG_START_PROCESS == TRUE

DEFAULT_NG_LOG_DCI == TRUE

DEFAULT_NG_LOG_DCI_BATCH_SIZE == 60000

DEFAULT_MATCHING_LOCAL_ADDR == "0.0.0.0:9292"

DEFAULT_MATCHING_TRAFFIC_PATTERN == <<"A">>

DEFAULT_MATCHING_TRAFFIC_DEST == "127.0.0.1:9494"

DEFAULT_MATCHING_LOG_TRAFFIC == TRUE

\* f64 1.0; the model only compares these values, it never computes with them.
DEFAULT_MODEL_INTERVAL_VALUE == 1

DEFAULT_MODEL_INTERVAL_TYPE == "RttFactor"

DEFAULT_MODEL_SMOOTHING_VALUE == 1

DEFAULT_MODEL_SMOOTHING_TYPE == "RttFactor"

DEFAULT_MODEL_LOG_METRIC == TRUE

DEFAULT_LOG_BASE_DIR == "./.logs.ue/"

DEFAULT_DOWNLOAD_BASE_ADDR == "127.0.0.1:9393"

DEFAULT_DOWNLOAD_PATHS ==
    << "/10s/cubic", "/10s/bbr", "/10s/reno",
       "/10s/l2b/fair0/init", "/10s/l2b/fair0/upper",
       "/10s/l2b/fair0/init_and_upper", "/10s/l2b/fair0/direct",
       "/10s/l2b/fair1/init", "/10s/l2b/fair1/upper",
       "/10s/l2b/fair1/init_and_upper", "/10s/l2b/fair1/direct",
       "/60s/cubic", "/60s/bbr", "/60s/reno",
       "/60s/l2b/fair0/init", "/60s/l2b/fair0/upper",
       "/60s/l2b/fair0/init_and_upper", "/60s/l2b/fair0/direct",
       "/60s/l2b/fair1/init", "/60s/l2b/fair1/upper",
       "/60s/l2b/fair1/init_and_upper", "/60s/l2b/fair1/direct" >>

\* impl Default for Arguments
ArgumentsDefault ==
    [ scenario |-> Some(DEFAULT_SCENARIO),
      verbose  |-> Some(DEFAULT_VERBOSE),
      cellapi  |-> Some(DEFAULT_CELL_API),
      milesight |-> Some([ milesight_address |-> Some(DEFAULT_MILESIGHT_ADDRESS),
                           milesight_user    |-> Some(DEFAULT_MILESIGHT_USER),
                           milesight_auth    |-> Some(DEFAULT_MILESIGHT_AUTH) ]),
      devicepublisher |-> Some([ devpub_address |-> Some(DEFAULT_DEVPUB_ADDRESS),
                                 devpub_auth    |-> Some(DEFAULT_DEVPUB_AUTH) ]),
      ngscope |-> Some([ ng_path               |-> Some(DEFAULT_NG_PATH),
                         ng_local_addr         |-> Some(DEFAULT_NG_LOCAL_ADDR),
                         ng_server_addr        |-> Some(DEFAULT_NG_SERVER_ADDR),
                         ng_log_file           |-> Some(DEFAULT_NG_LOG_FILE),
                         ng_start_process      |-> Some(DEFAULT_NG_START_PROCESS),
                         ng_log_dci            |-> Some(DEFAULT_NG_LOG_DCI),
                         ng_log_dci_batch_size |-> Some(DEFAULT_NG_LOG_DCI_BATCH_SIZE) ]),
      rntimatching |-> Some([ matching_local_addr          |-> Some(DEFAULT_MATCHING_LOCAL_ADDR),
                              matching_traffic_pattern     |-> Some(DEFAULT_MATCHING_TRAFFIC_PATTERN),
                              matching_traffic_destination |-> Some(DEFAULT_MATCHING_TRAFFIC_DEST),
                              matching_log_traffic         |-> Some(DEFAULT_MATCHING_LOG_TRAFFIC) ]),
      model |-> Some([ model_send_metric_interval_value  |-> Some(DEFAULT_MODEL_INTERVAL_VALUE),
                       model_send_metric_interval_type   |-> Some(DEFAULT_MODEL_INTERVAL_TYPE),
                       model_metric_smoothing_size_value |-> Some(DEFAULT_MODEL_SMOOTHING_VALUE),
                       model_metric_smoothing_size_type  |-> Some(DEFAULT_MODEL_SMOOTHING_TYPE),
                       model_log_metric                  |-> Some(DEFAULT_MODEL_LOG_METRIC) ]),
      log |-> Some([ log_base_dir |-> Some(DEFAULT_LOG_BASE_DIR) ]),
      download |-> Some([ download_base_addr |-> Some(DEFAULT_DOWNLOAD_BASE_ADDR),
                          download_paths     |-> Some(DEFAULT_DOWNLOAD_PATHS) ]) ]

\* ------------------------------------------------- shape of struct Arguments

\* The top-level Option scalars of struct Arguments.
TopFields == {"scenario", "cellapi", "verbose"}

\* The Option<section> fields of struct Arguments.
Sections == {"milesight", "devicepublisher", "ngscope", "rntimatching", "model", "log", "download"}

\* The leaves of each section struct.
LeafNames(s) ==
    CASE s = "milesight"       -> {"milesight_address", "milesight_user", "milesight_auth"}
      [] s = "devicepublisher" -> {"devpub_address", "devpub_auth"}
      [] s = "ngscope"         -> {"ng_path", "ng_local_addr", "ng_server_addr", "ng_log_file",
                                   "ng_start_process", "ng_log_dci", "ng_log_dci_batch_size"}
      [] s = "rntimatching"    -> {"matching_local_addr", "matching_traffic_pattern",
                                   "matching_traffic_destination", "matching_log_traffic"}
      [] s = "model"           -> {"model_send_metric_interval_value", "model_send_metric_interval_type",
                                   "model_metric_smoothing_size_value", "model_metric_smoothing_size_type",
                                   "model_log_metric"}
      [] s = "log"             -> {"log_base_dir"}
      [] s = "download"        -> {"download_base_addr", "download_paths"}

\* Every leaf of every section, as <<section, leaf>>.
SectionLeaves == UNION { { <<s, l>> : l \in LeafNames(s) } : s \in Sections }

\* The value an Arguments holds for a section leaf: None when the section is
\* absent or the leaf is unspecified in it.
LeafOf(args, s, l) == IF is_none(args[s]) THEN None ELSE unwrap(args[s])[l]

\* A section struct with every leaf unspecified.
EmptySection(s) == [ l \in LeafNames(s) |-> None ]

\* An Arguments with nothing specified and no section present.
EmptyArguments ==
    [ scenario |-> None, verbose |-> None, cellapi |-> None,
      milesight |-> None, devicepublisher |-> None, ngscope |-> None,
      rntimatching |-> None, model |-> None, log |-> None, download |-> None ]

\* --------------------------------------------------------- command line

\* The value a section leaf takes when its flag is given on the command line;
\* each differs from the leaf's Default Table value.
CliValue(l) ==
    CASE l \in {"ng_start_process", "ng_log_dci", "matching_log_traffic", "model_log_metric"} -> FALSE
      [] l = "ng_log_dci_batch_size" -> 1000
      [] l \in {"model_send_metric_interval_value", "model_metric_smoothing_size_value"} -> 2
      [] l \in {"model_send_metric_interval_type", "model_metric_smoothing_size_type"} -> "FixedMs"
      [] l = "matching_traffic_pattern" -> <<"A", "A">>
      [] l = "download_paths" -> <<"/cli/path">>
      [] OTHER -> "cli"

\* clap, #[command(flatten)] on an Option<section>: the section is None when
\* none of its flags is given, otherwise Some with exactly the given leaves.
ParseSection(s, given) ==
    IF \A l \in LeafNames(s) : <<s, l>> \notin given
    THEN None
    ELSE Some([ l \in LeafNames(s) |-> IF <<s, l>> \in given THEN Some(CliValue(l)) ELSE None ])

\* Arguments::parse() for a command line giving the top-level scalars sc, api, vb
\* (each an Option) and the section leaves in `given`.
ParseArgs(sc, api, vb, given) ==
    [ scenario |-> sc, verbose |-> vb, cellapi |-> api,
      milesight       |-> ParseSection("milesight", given),
      devicepublisher |-> ParseSection("devicepublisher", given),
      ngscope         |-> ParseSection("ngscope", given),
      rntimatching    |-> ParseSection("rntimatching", given),
      model           |-> ParseSection("model", given),
      log             |-> ParseSection("log", given),
      download        |-> ParseSection("download", given) ]

\* Option<E> for an enumerated or boolean flag: absent, or any accepted token.
OptionOf(E) == {None} \cup { Some(e) : e \in E }

\* The subsets of SectionLeaves with at most k elements.
RECURSIVE LeafSetsUpTo(_)
LeafSetsUpTo(k) ==
    IF k = 0 THEN { {} }
    ELSE LET smaller == LeafSetsUpTo(k - 1)
         IN  smaller \cup { g \cup {x} : g \in smaller, x \in SectionLeaves }

\* The sets of section leaves one command line gives.
GivenSets == LeafSetsUpTo(MaxCliLeaves)

\* Every Raw Configuration the command line can produce within the bound.
RawConfigs ==
    { ParseArgs(sc, api, vb, g) :
        sc \in OptionOf(Scenario), api \in OptionOf(CellApiConfig),
        vb \in OptionOf(BOOLEAN), g \in GivenSets }

\* ------------------------------------------------------ fill_with_config_file

\* Mutant: milesight_user is taken from the file even when the CLI gave it.
MilesightArgs_fill_FileWins(self, config_file) ==
    [ milesight_address |-> IF is_none(self.milesight_address)
                            THEN config_file.milesight_address ELSE self.milesight_address,
      milesight_user    |-> config_file.milesight_user,
      milesight_auth    |-> IF is_none(self.milesight_auth)
                            THEN config_file.milesight_auth ELSE self.milesight_auth ]

MilesightArgs_fill_with_config_file(self, config_file) ==
    [ milesight_address |-> IF is_none(self.milesight_address)
                            THEN config_file.milesight_address ELSE self.milesight_address,
      milesight_user    |-> IF is_none(self.milesight_user)
                            THEN config_file.milesight_user ELSE self.milesight_user,
      milesight_auth    |-> IF is_none(self.milesight_auth)
                            THEN config_file.milesight_auth ELSE self.milesight_auth ]

DevicePublisherArgs_fill_with_config_file(self, config_file) ==
    [ devpub_address |-> IF is_none(self.devpub_address)
                         THEN config_file.devpub_address ELSE self.devpub_address,
      devpub_auth    |-> IF is_none(self.devpub_auth)
                         THEN config_file.devpub_auth ELSE self.devpub_auth ]

NgScopeArgs_fill_with_config_file(self, config_file) ==
    [ ng_path               |-> IF is_none(self.ng_path)
                                THEN config_file.ng_path ELSE self.ng_path,
      ng_local_addr         |-> IF is_none(self.ng_local_addr)
                                THEN config_file.ng_local_addr ELSE self.ng_local_addr,
      ng_server_addr        |-> IF is_none(self.ng_server_addr)
                                THEN config_file.ng_server_addr ELSE self.ng_server_addr,
      ng_log_file           |-> IF is_none(self.ng_log_file)
                                THEN config_file.ng_log_file ELSE self.ng_log_file,
      ng_start_process      |-> IF is_none(self.ng_start_process)
                                THEN config_file.ng_start_process ELSE self.ng_start_process,
      ng_log_dci            |-> IF is_none(self.ng_log_dci)
                                THEN config_file.ng_log_dci ELSE self.ng_log_dci,
      ng_log_dci_batch_size |-> IF is_none(self.ng_log_dci_batch_size)
                                THEN config_file.ng_log_dci_batch_size ELSE self.ng_log_dci_batch_size ]

RntiMatchingArgs_fill_with_config_file(self, config_file) ==
    [ matching_local_addr          |-> IF is_none(self.matching_local_addr)
                                       THEN config_file.matching_local_addr
                                       ELSE self.matching_local_addr,
      matching_traffic_pattern     |-> IF is_none(self.matching_traffic_pattern)
                                       THEN config_file.matching_traffic_pattern
                                       ELSE self.matching_traffic_pattern,
      matching_traffic_destination |-> IF is_none(self.matching_traffic_destination)
                                       THEN config_file.matching_traffic_destination
                                       ELSE self.matching_traffic_destination,
      matching_log_traffic         |-> IF is_none(self.matching_log_traffic)
                                       THEN config_file.matching_log_traffic
                                       ELSE self.matching_log_traffic ]

\* The source fills four of the five leaves: model_log_metric is not touched.
ModelArgs_fill_with_config_file(self, config_file) ==
    [ model_send_metric_interval_value  |-> IF is_none(self.model_send_metric_interval_value)
                                            THEN config_file.model_send_metric_interval_value
                                            ELSE self.model_send_metric_interval_value,
      model_send_metric_interval_type   |-> IF is_none(self.model_send_metric_interval_type)
                                            THEN config_file.model_send_metric_interval_type
                                            ELSE self.model_send_metric_interval_type,
      model_metric_smoothing_size_value |-> IF is_none(self.model_metric_smoothing_size_value)
                                            THEN config_file.model_metric_smoothing_size_value
                                            ELSE self.model_metric_smoothing_size_value,
      model_metric_smoothing_size_type  |-> IF is_none(self.model_metric_smoothing_size_type)
                                            THEN config_file.model_metric_smoothing_size_type
                                            ELSE self.model_metric_smoothing_size_type,
      model_log_metric                  |-> self.model_log_metric ]

DownloadArgs_fill_with_config_file(self, config_file) ==
    [ download_base_addr |-> IF is_none(self.download_base_addr)
                             THEN config_file.download_base_addr ELSE self.download_base_addr,
      download_paths     |-> IF is_none(self.download_paths)
                             THEN config_file.download_paths ELSE self.download_paths ]

\* ------------------------------------------------------------ get_config_file

\* The sections get_config_file fills leaf by leaf (log is merged with Option::or).
FilledSections == {"milesight", "devicepublisher", "ngscope", "rntimatching", "model", "download"}

\* config_file.<section>.unwrap() panics: the command line names the section and
\* the loaded record has none.
get_config_file_panics(self, config_file) ==
    \E s \in FilledSections : is_some(self[s]) /\ is_none(config_file[s])

\* Mutant: the log merge is left out, like the section merges commented out
\* next to it.
get_config_file_LogNotMerged(self, config_file) ==
    [ cellapi  |-> or(self.cellapi, config_file.cellapi),
      log      |-> self.log,
      verbose  |-> or(self.verbose, config_file.verbose),
      scenario |-> or(self.scenario, config_file.scenario),
      milesight |->
          IF is_some(self.milesight)
          THEN Some(MilesightArgs_fill_with_config_file(
                        unwrap(self.milesight), unwrap(config_file.milesight)))
          ELSE config_file.milesight,
      devicepublisher |->
          IF is_some(self.devicepublisher)
          THEN Some(DevicePublisherArgs_fill_with_config_file(
                        unwrap(self.devicepublisher), unwrap(config_file.devicepublisher)))
          ELSE config_file.devicepublisher,
      ngscope |->
          IF is_some(self.ngscope)
          THEN Some(NgScopeArgs_fill_with_config_file(
                        unwrap(self.ngscope), unwrap(config_file.ngscope)))
          ELSE config_file.ngscope,
      rntimatching |->
          IF is_some(self.rntimatching)
          THEN Some(RntiMatchingArgs_fill_with_config_file(
                        unwrap(self.rntimatching), unwrap(config_file.rntimatching)))
          ELSE config_file.rntimatching,
      model |->
          IF is_some(self.model)
          THEN Some(ModelArgs_fill_with_config_file(
                        unwrap(self.model), unwrap(config_file.model)))
          ELSE config_file.model,
      download |->
          IF is_some(self.download)
          THEN Some(DownloadArgs_fill_with_config_file(
                        unwrap(self.download), unwrap(config_file.download)))
          ELSE config_file.download ]

\* The body of get_config_file after a successful confy::load, for a pair on
\* which no unwrap panics. CLI > config file.
get_config_file(self, config_file) ==
    [ cellapi  |-> or(self.cellapi, config_file.cellapi),
      log      |-> or(self.log, config_file.log),
      verbose  |-> or(self.verbose, config_file.verbose),
      scenario |-> or(self.scenario, config_file.scenario),
      milesight |->
          IF is_some(self.milesight)
          THEN Some(MilesightArgs_fill_with_config_file(
                        unwrap(self.milesight), unwrap(config_file.milesight)))
          ELSE config_file.milesight,
      devicepublisher |->
          IF is_some(self.devicepublisher)
          THEN Some(DevicePublisherArgs_fill_with_config_file(
                        unwrap(self.devicepublisher), unwrap(config_file.devicepublisher)))
          ELSE config_file.devicepublisher,
      ngscope |->
          IF is_some(self.ngscope)
          THEN Some(NgScopeArgs_fill_with_config_file(
                        unwrap(self.ngscope), unwrap(config_file.ngscope)))
          ELSE config_file.ngscope,
      rntimatching |->
          IF is_some(self.rntimatching)
          THEN Some(RntiMatchingArgs_fill_with_config_file(
                        unwrap(self.rntimatching), unwrap(config_file.rntimatching)))
          ELSE config_file.rntimatching,
      model |->
          IF is_some(self.model)
          THEN Some(ModelArgs_fill_with_config_file(
                        unwrap(self.model), unwrap(config_file.model)))
          ELSE config_file.model,
      download |->
          IF is_some(self.download)
          THEN Some(DownloadArgs_fill_with_config_file(
                        unwrap(self.download), unwrap(config_file.download)))
          ELSE config_file.download ]

\* ------------------------------------------------------------ persisted store

\* The record at the configuration path: no file, a file that cannot be
\* opened or deserialized into Arguments, or a file holding an Arguments.
StoreRecord(doc) == [ kind |-> "record", doc |-> doc ]

StoreAbsent == [ kind |-> "absent", doc |-> EmptyArguments ]

StoreUnreadable == [ kind |-> "unreadable", doc |-> EmptyArguments ]

\* Mutant: the Default Table is returned as the working configuration.
set_config_file_ReturnsDefaults(self) ==
    [ stored |-> [ kind |-> "record", doc |-> ArgumentsDefault ], returned |-> ArgumentsDefault ]

\* Mutant: the parsed arguments (self) are stored instead of the Default Table.
set_config_file_StoresSelf(self) ==
    [ stored |-> [ kind |-> "record", doc |-> self ], returned |-> self ]

\* Mutant: the Default Table is merged into the returned arguments.
set_config_file_MergesDefaults(self) ==
    [ stored |-> [ kind |-> "record", doc |-> ArgumentsDefault ],
      returned |-> get_config_file(self, ArgumentsDefault) ]

\* set_config_file: what confy::store writes, and what the method returns.
\* The stored value is Default::default(), never self.
set_config_file(self) == [ stored |-> StoreRecord(ArgumentsDefault), returned |-> self ]

\* print_config_file prints (and so can fail) only when verbose.unwrap_or(true).
print_config_file_prints(self) == IF is_some(self.verbose) THEN unwrap(self.verbose) ELSE TRUE

\* --------------------------------------------------------------- flattening

\* The outcome of a from_unflattened call: a panic of Option::unwrap on None,
\* or Ok(v).
Panicked == << >>

Ok(v) == << v >>

\* Mutant: the leaves of both data sources are unwrapped before the match.
FlattenedCellApiConfig_RequiresBoth(cell_api, milesight_args, devicepublisher_args) ==
    IF \/ is_none(milesight_args.milesight_address)
       \/ is_none(milesight_args.milesight_user)
       \/ is_none(milesight_args.milesight_auth)
       \/ is_none(devicepublisher_args.devpub_address)
       \/ is_none(devicepublisher_args.devpub_auth)
    THEN Panicked
    ELSE IF cell_api = "Milesight"
         THEN Ok([ variant           |-> "Milesight",
                   milesight_address |-> unwrap(milesight_args.milesight_address),
                   milesight_user    |-> unwrap(milesight_args.milesight_user),
                   milesight_auth    |-> unwrap(milesight_args.milesight_auth) ])
         ELSE Ok([ variant        |-> "DevicePublisher",
                   devpub_address |-> unwrap(devicepublisher_args.devpub_address),
                   devpub_auth    |-> unwrap(devicepublisher_args.devpub_auth) ])

\* Mutant: the two match arms are exchanged.
FlattenedCellApiConfig_ArmsSwapped(cell_api, milesight_args, devicepublisher_args) ==
    IF cell_api = "DevicePublisher"
    THEN IF \/ is_none(milesight_args.milesight_address)
            \/ is_none(milesight_args.milesight_user)
            \/ is_none(milesight_args.milesight_auth)
         THEN Panicked
         ELSE Ok([ variant           |-> "Milesight",
                   milesight_address |-> unwrap(milesight_args.milesight_address),
                   milesight_user    |-> unwrap(milesight_args.milesight_user),
                   milesight_auth    |-> unwrap(milesight_args.milesight_auth) ])
    ELSE IF \/ is_none(devicepublisher_args.devpub_address)
            \/ is_none(devicepublisher_args.devpub_auth)
         THEN Panicked
         ELSE Ok([ variant        |-> "DevicePublisher",
                   devpub_address |-> unwrap(devicepublisher_args.devpub_address),
                   devpub_auth    |-> unwrap(devicepublisher_args.devpub_auth) ])

FlattenedCellApiConfig_from_unflattened(cell_api, milesight_args, devicepublisher_args) ==
    IF cell_api = "Milesight"
    THEN IF \/ is_none(milesight_args.milesight_address)
            \/ is_none(milesight_args.milesight_user)
            \/ is_none(milesight_args.milesight_auth)
         THEN Panicked
         ELSE Ok([ variant           |-> "Milesight",
                   milesight_address |-> unwrap(milesight_args.milesight_address),
                   milesight_user    |-> unwrap(milesight_args.milesight_user),
                   milesight_auth    |-> unwrap(milesight_args.milesight_auth) ])
    ELSE IF \/ is_none(devicepublisher_args.devpub_address)
            \/ is_none(devicepublisher_args.devpub_auth)
         THEN Panicked
         ELSE Ok([ variant        |-> "DevicePublisher",
                   devpub_address |-> unwrap(devicepublisher_args.devpub_address),
                   devpub_auth    |-> unwrap(devicepublisher_args.devpub_auth) ])

\* ng_log_file is carried over as an Option; the other six leaves are unwrapped.
FlattenedNgScopeArgs_from_unflattened(ng_args) ==
    IF \/ is_none(ng_args.ng_path)
       \/ is_none(ng_args.ng_local_addr)
       \/ is_none(ng_args.ng_server_addr)
       \/ is_none(ng_args.ng_start_process)
       \/ is_none(ng_args.ng_log_dci)
       \/ is_none(ng_args.ng_log_dci_batch_size)
    THEN Panicked
    ELSE Ok([ ng_path               |-> unwrap(ng_args.ng_path),
              ng_local_addr         |-> unwrap(ng_args.ng_local_addr),
              ng_server_addr        |-> unwrap(ng_args.ng_server_addr),
              ng_start_process      |-> unwrap(ng_args.ng_start_process),
              ng_log_file           |-> ng_args.ng_log_file,
              ng_log_dci            |-> unwrap(ng_args.ng_log_dci),
              ng_log_dci_batch_size |-> unwrap(ng_args.ng_log_dci_batch_size) ])

FlattenedRntiMatchingArgs_from_unflattened(rnti_args) ==
    IF \/ is_none(rnti_args.matching_local_addr)
       \/ is_none(rnti_args.matching_traffic_pattern)
       \/ is_none(rnti_args.matching_traffic_destination)
       \/ is_none(rnti_args.matching_log_traffic)
    THEN Panicked
    ELSE Ok([ matching_local_addr          |-> unwrap(rnti_args.matching_local_addr),
              matching_traffic_pattern     |-> unwrap(rnti_args.matching_traffic_pattern),
              matching_traffic_destination |-> unwrap(rnti_args.matching_traffic_destination),
              matching_log_traffic         |-> unwrap(rnti_args.matching_log_traffic) ])

FlattenedModelArgs_from_unflattened(model_args) ==
    IF \/ is_none(model_args.model_send_metric_interval_value)
       \/ is_none(model_args.model_send_metric_interval_type)
       \/ is_none(model_args.model_metric_smoothing_size_value)
       \/ is_none(model_args.model_metric_smoothing_size_type)
       \/ is_none(model_args.model_log_metric)
    THEN Panicked
    ELSE Ok([ model_send_metric_interval_value  |-> unwrap(model_args.model_send_metric_interval_value),
              model_send_metric_interval_type   |-> unwrap(model_args.model_send_metric_interval_type),
              model_metric_smoothing_size_value |-> unwrap(model_args.model_metric_smoothing_size_value),
              model_metric_smoothing_size_type  |-> unwrap(model_args.model_metric_smoothing_size_type),
              model_log_metric                  |-> unwrap(model_args.model_log_metric) ])

\* Mutant: a missing log_base_dir is replaced by the default instead of
\* being unwrapped.
FlattenedLogArgs_DefaultsWhenNone(log_args) ==
    IF is_none(log_args.log_base_dir)
    THEN Ok([ log_base_dir |-> DEFAULT_LOG_BASE_DIR ])
    ELSE Ok([ log_base_dir |-> unwrap(log_args.log_base_dir) ])

FlattenedLogArgs_from_unflattened(log_args) ==
    IF is_none(log_args.log_base_dir)
    THEN Panicked
    ELSE Ok([ log_base_dir |-> unwrap(log_args.log_base_dir) ])

FlattenedDownloadArgs_from_unflattened(download_args) ==
    IF \/ is_none(download_args.download_base_addr)
       \/ is_none(download_args.download_paths)
    THEN Panicked
    ELSE Ok([ download_base_addr |-> unwrap(download_args.download_base_addr),
              download_paths     |-> unwrap(download_args.download_paths) ])

\* The caller of the from_unflattened functions hands each of them the section
\* structs of the working configuration; a section (or the cellapi tag) that
\* is absent cannot be handed over, and flattening it fails.
FlattenAll(config) ==
    [ cellapi |->
          IF is_none(config.cellapi) \/ is_none(config.milesight) \/ is_none(config.devicepublisher)
          THEN Panicked
          ELSE FlattenedCellApiConfig_from_unflattened(
                   unwrap(config.cellapi), unwrap(config.milesight), unwrap(config.devicepublisher)),
      ngscope |->
          IF is_none(config.ngscope) THEN Panicked
          ELSE FlattenedNgScopeArgs_from_unflattened(unwrap(config.ngscope)),
      rntimatching |->
          IF is_none(config.rntimatching) THEN Panicked
          ELSE FlattenedRntiMatchingArgs_from_unflattened(unwrap(config.rntimatching)),
      model |->
          IF is_none(config.model) THEN Panicked
          ELSE FlattenedModelArgs_from_unflattened(unwrap(config.model)),
      log |->
          IF is_none(config.log) THEN Panicked
          ELSE FlattenedLogArgs_from_unflattened(unwrap(config.log)),
      download |->
          IF is_none(config.download) THEN Panicked
          ELSE FlattenedDownloadArgs_from_unflattened(unwrap(config.download)) ]

\* No flattening has taken place.
NotFlattened ==
    [ cellapi |-> Panicked, ngscope |-> Panicked, rntimatching |-> Panicked,
      model |-> Panicked, log |-> Panicked, download |-> Panicked ]

\* ------------------------------------------------- records found at start-up

\* A value for each section leaf that differs from its Default Table value,
\* as a record edited by hand holds it.
StoredValue(l) ==
    CASE l \in {"ng_start_process", "ng_log_dci", "matching_log_traffic", "model_log_metric"} -> FALSE
      [] l = "ng_log_dci_batch_size" -> 500
      [] l \in {"model_send_metric_interval_value", "model_metric_smoothing_size_value"} -> 3
      [] l \in {"model_send_metric_interval_type", "model_metric_smoothing_size_type"} -> "FixedMs"
      [] l = "matching_traffic_pattern" -> << >>
      [] l = "download_paths" -> <<"/file/path">>
      [] OTHER -> "file"

\* A complete record none of whose values is the Default Table's.
ArgumentsStored ==
    [ scenario |-> Some("PerformMeasurement"), verbose |-> Some(FALSE),
      cellapi  |-> Some("DevicePublisher"),
      milesight       |-> Some([ l \in LeafNames("milesight") |-> Some(StoredValue(l)) ]),
      devicepublisher |-> Some([ l \in LeafNames("devicepublisher") |-> Some(StoredValue(l)) ]),
      ngscope         |-> Some([ l \in LeafNames("ngscope") |-> Some(StoredValue(l)) ]),
      rntimatching    |-> Some([ l \in LeafNames("rntimatching") |-> Some(StoredValue(l)) ]),
      model           |-> Some([ l \in LeafNames("model") |-> Some(StoredValue(l)) ]),
      log             |-> Some([ l \in LeafNames("log") |-> Some(StoredValue(l)) ]),
      download        |-> Some([ l \in LeafNames("download") |-> Some(StoredValue(l)) ]) ]

\* Records that deserialize into Arguments without being complete: a section
\* key missing, a section whose leaves are all null, one null leaf, one null
\* top-level scalar.
WithoutSection(doc, s) == [ doc EXCEPT ![s] = None ]

BlankSection(doc, s) == [ doc EXCEPT ![s] = Some(EmptySection(s)) ]

BlankLeaf(doc, s, l) == [ doc EXCEPT ![s] = Some([ unwrap(doc[s]) EXCEPT ![l] = None ]) ]

BlankTop(doc, f) == [ doc EXCEPT ![f] = None ]

StoredDocs ==
    {ArgumentsDefault, ArgumentsStored}
      \cup { WithoutSection(ArgumentsDefault, s) : s \in Sections }
      \cup { BlankSection(ArgumentsDefault, s) : s \in Sections }
      \cup { BlankLeaf(ArgumentsDefault, sl[1], sl[2]) : sl \in SectionLeaves }
      \cup { BlankTop(ArgumentsDefault, f) : f \in TopFields }

InitialStores == {StoreAbsent, StoreUnreadable} \cup { StoreRecord(d) : d \in StoredDocs }

\* ------------------------------------------------------------------- state

\* result: how Arguments::build ended in this run. status is "ok" (a
\* configuration was returned, in args), "err" (an Err was returned) or
\* "panic"; load tells whether confy::load returned Ok.
NoResult == [ status |-> "none", load |-> "none", args |-> EmptyArguments ]

Returned(load, args, printOk) ==
    IF printOk
    THEN [ status |-> "ok", load |-> load, args |-> args ]
    ELSE [ status |-> "err", load |-> load, args |-> EmptyArguments ]

\* The outcomes of print_config_file: it can fail only when it prints.
PrintOutcomes(args) == IF print_config_file_prints(args) THEN BOOLEAN ELSE {TRUE}

Init ==
    /\ store \in InitialStores
    /\ pc = "start"
    /\ cli = EmptyArguments
    /\ result = NoResult
    /\ flat = NotFlattened

\* Arguments::build is one step: Arguments::parse() yields the Raw
\* Configuration r, confy::load is attempted, and one of the branches below
\* runs to the return (or the panic).

\* Mutant: the record is loaded before the command line is parsed, so that
\* confy::load has created a missing record by the time the parse error exits.
BuildParseError_LoadsFirst ==
    /\ pc = "start"
    /\ store' = IF store.kind = "absent" THEN [ kind |-> "record", doc |-> ArgumentsDefault ]
                ELSE store
    /\ result' = [ status |-> "parse_error", load |-> "none", args |-> EmptyArguments ]
    /\ pc' = "built"
    /\ UNCHANGED <<cli, flat>>

\* build: Arguments::parse() rejects the command line (a token that is none of
\* the values of an enumerated flag); clap reports the error and exits the
\* process before build reaches get_config_file.
BuildParseError ==
    /\ pc = "start"
    /\ result' = [ status |-> "parse_error", load |-> "none", args |-> EmptyArguments ]
    /\ pc' = "built"
    /\ UNCHANGED <<store, cli, flat>>

\* build, Ok branch: confy::load read an existing record and no unwrap panicked.
BuildMerge ==
    /\ pc = "start"
    /\ store.kind = "record"
    /\ \E r \in RawConfigs :
           /\ ~get_config_file_panics(r, store.doc)
           /\ cli' = r
           /\ LET merged == get_config_file(r, store.doc)
              IN  \E printOk \in PrintOutcomes(merged) : result' = Returned("ok", merged, printOk)
    /\ pc' = "built"
    /\ UNCHANGED <<store, flat>>

\* Mutant: a section missing from the record is skipped instead of unwrapped,
\* and the parsed arguments are returned unfilled.
BuildMergePanics_MissingSectionSkipped ==
    /\ pc = "start"
    /\ store.kind = "record"
    /\ \E r \in RawConfigs :
           /\ get_config_file_panics(r, store.doc)
           /\ cli' = r
           /\ result' = [ status |-> "ok", load |-> "ok", args |-> r ]
    /\ pc' = "built"
    /\ UNCHANGED <<store, flat>>

\* build: confy::load read an existing record that lacks a section the command
\* line names; config_file.<section>.unwrap() panics.
BuildMergePanics ==
    /\ pc = "start"
    /\ store.kind = "record"
    /\ \E r \in RawConfigs :
           /\ get_config_file_panics(r, store.doc)
           /\ cli' = r
    /\ result' = [ status |-> "panic", load |-> "ok", args |-> EmptyArguments ]
    /\ pc' = "built"
    /\ UNCHANGED <<store, flat>>

\* build, Ok branch: confy::load found no file, wrote Arguments::default() at
\* the path and returned it; get_config_file merges against it.
BuildCreateAndMerge ==
    /\ pc = "start"
    /\ store.kind = "absent"
    /\ store' = StoreRecord(ArgumentsDefault)
    /\ \E r \in RawConfigs :
           /\ cli' = r
           /\ LET merged == get_config_file(r, ArgumentsDefault)
              IN  \E printOk \in PrintOutcomes(merged) : result' = Returned("ok", merged, printOk)
    /\ pc' = "built"
    /\ UNCHANGED flat

\* build, Err branch: confy::load failed (the file cannot be read or
\* deserialized, or creating the missing file failed); set_config_file stores
\* the Default Table and build returns the parsed arguments.
BuildSeed ==
    /\ pc = "start"
    /\ store.kind \in {"absent", "unreadable"}
    /\ \E r \in RawConfigs :
           /\ cli' = r
           /\ LET w == set_config_file(r)
              IN  /\ store' = w.stored
                  /\ \E printOk \in PrintOutcomes(w.returned) :
                         result' = Returned("failed", w.returned, printOk)
    /\ pc' = "built"
    /\ UNCHANGED flat

\* Mutant: the error of confy::store is dropped and the parsed arguments are
\* returned although nothing was written.
BuildSeedFails_ErrorDropped ==
    /\ pc = "start"
    /\ store.kind \in {"absent", "unreadable"}
    /\ \E r \in RawConfigs :
           /\ cli' = r
           /\ result' = [ status |-> "ok", load |-> "failed", args |-> r ]
    /\ pc' = "built"
    /\ UNCHANGED <<store, flat>>

\* build, Err branch: confy::store fails too; `?` returns the error.
BuildSeedFails ==
    /\ pc = "start"
    /\ store.kind \in {"absent", "unreadable"}
    /\ \E r \in RawConfigs : cli' = r
    /\ result' = [ status |-> "err", load |-> "failed", args |-> EmptyArguments ]
    /\ pc' = "built"
    /\ UNCHANGED <<store, flat>>

\* The caller flattens the configuration build returned.
Flatten ==
    /\ pc = "built"
    /\ result.status = "ok"
    /\ flat' = FlattenAll(result.args)
    /\ pc' = "flattened"
    /\ UNCHANGED <<store, cli, result>>

\* The process ends; the next invocation starts with the store as it was left.
Exit ==
    /\ \/ pc = "flattened"
       \/ pc = "built" /\ result.status # "ok"
    /\ pc' = "start"
    /\ cli' = EmptyArguments
    /\ result' = NoResult
    /\ flat' = NotFlattened
    /\ UNCHANGED store

Next ==
    \/ BuildParseError
    \/ BuildMerge
    \/ BuildMergePanics
    \/ BuildCreateAndMerge
    \/ BuildSeed
    \/ BuildSeedFails
    \/ Flatten
    \/ Exit

Spec == Init /\ [][Next]_vars

\* ------------------------------------------------------ vocabulary of claims

\* build has returned a configuration in this run (result.args).
BuiltOk == pc \in {"built", "flattened"} /\ result.status = "ok"

\* build has returned a configuration that get_config_file merged; the
\* snapshot F it merged against is store.doc (a successful load leaves it in
\* the store).
Merged == BuiltOk /\ result.load = "ok"

\* Every top-level scalar specified, every section present, every leaf specified.
Complete(args) ==
    /\ \A f \in TopFields : is_some(args[f])
    /\ \A s \in Sections : is_some(args[s])
    /\ \A sl \in SectionLeaves : is_some(LeafOf(args, sl[1], sl[2]))

DefaultStore == StoreRecord(ArgumentsDefault)

\* The component of the Flattened Configuration a section goes into.
Component(s) == IF s \in {"milesight", "devicepublisher"} THEN "cellapi" ELSE s

\* The section leaves from_unflattened unwraps for a configuration: those of
\* the data source the cellapi tag selects and those of the other five
\* sections, ng_log_file excepted.
Unwrapped(args, s, l) ==
    CASE s = "milesight"       -> args.cellapi = Some("Milesight")
      [] s = "devicepublisher" -> args.cellapi = Some("DevicePublisher")
      [] s = "ngscope"         -> l # "ng_log_file"
      [] OTHER                 -> TRUE

\* ------------------------------------------------------------------- claims

\* C1: after a successful load, every leaf the command line supplies has the
\* command line's value in the configuration build returns, whatever the
\* loaded snapshot holds.
C1_CliValueWins ==
    Merged =>
        /\ \A f \in TopFields : is_some(cli[f]) => result.args[f] = cli[f]
        /\ \A sl \in SectionLeaves :
               is_some(LeafOf(cli, sl[1], sl[2]))
                   => LeafOf(result.args, sl[1], sl[2]) = LeafOf(cli, sl[1], sl[2])

\* C1 witness: a merge against the all-different snapshot with milesight_user
\* and the scenario given on the command line.
C1_Witness ==
    /\ Merged
    /\ store.doc = ArgumentsStored
    /\ cli.scenario = Some("TrackCellDciOnly")
    /\ LeafOf(cli, "milesight", "milesight_user") = Some("cli")
    /\ LeafOf(result.args, "milesight", "milesight_user") = Some("cli")
    /\ LeafOf(result.args, "milesight", "milesight_auth") = Some("file")

\* C2 (as claimed): after a successful load of a complete snapshot, every
\* leaf the command line leaves unspecified has the snapshot's value, also
\* when a sibling leaf of its section is given on the command line.
C2_StoredValueFills ==
    (Merged /\ Complete(store.doc)) =>
        /\ \A f \in TopFields : is_none(cli[f]) => result.args[f] = store.doc[f]
        /\ \A sl \in SectionLeaves :
               is_none(LeafOf(cli, sl[1], sl[2]))
                   => LeafOf(result.args, sl[1], sl[2]) = LeafOf(store.doc, sl[1], sl[2])

\* C3 (as claimed): after a successful load of a complete snapshot the
\* configuration build returns is complete, for every command line.
C3_CompleteAfterMerge ==
    (Merged /\ Complete(store.doc)) => Complete(result.args)

C5_TaggedChoice ==
    (/\ pc = "flattened"
     /\ is_some(result.args.cellapi)
     /\ is_some(result.args.milesight)
     /\ is_some(result.args.devicepublisher)) =>
        LET m == unwrap(result.args.milesight)
            d == unwrap(result.args.devicepublisher)
        IN  /\ result.args.cellapi = Some("Milesight") =>
                  IF \A l \in LeafNames("milesight") : is_some(m[l])
                  THEN flat.cellapi = Ok([ variant           |-> "Milesight",
                                           milesight_address |-> unwrap(m.milesight_address),
                                           milesight_user    |-> unwrap(m.milesight_user),
                                           milesight_auth    |-> unwrap(m.milesight_auth) ])
                  ELSE flat.cellapi = Panicked
            /\ result.args.cellapi = Some("DevicePublisher") =>
                  IF \A l \in LeafNames("devicepublisher") : is_some(d[l])
                  THEN flat.cellapi = Ok([ variant        |-> "DevicePublisher",
                                           devpub_address |-> unwrap(d.devpub_address),
                                           devpub_auth    |-> unwrap(d.devpub_auth) ])
                  ELSE flat.cellapi = Panicked

\* C5 witness: the Milesight variant was produced while every
\* devicepublisher leaf is unspecified.
C5_Witness ==
    /\ pc = "flattened"
    /\ result.args.cellapi = Some("Milesight")
    /\ result.args.devicepublisher = Some(EmptySection("devicepublisher"))
    /\ is_some(flat.cellapi)
    /\ unwrap(flat.cellapi).variant = "Milesight"

\* C6 (as claimed): flattening ngscope, rntimatching, model, log or download
\* fails whenever a leaf of the section is unspecified, and a flattened
\* ngscope has a value for ng_log_file.
C6_AllLeavesRequired ==
    pc = "flattened" =>
        /\ \A s \in {"ngscope", "rntimatching", "model", "log", "download"} :
               (/\ is_some(result.args[s])
                /\ \E l \in LeafNames(s) : is_none(unwrap(result.args[s])[l]))
                   => flat[s] = Panicked
        /\ flat.ngscope # Panicked => is_some(unwrap(flat.ngscope).ng_log_file)

C8_FirstRunFlattenFails ==
    (/\ pc = "flattened"
     /\ result.load = "failed"
     /\ \/ is_none(cli.cellapi)
        \/ \E sl \in SectionLeaves :
               Unwrapped(cli, sl[1], sl[2]) /\ is_none(LeafOf(cli, sl[1], sl[2]))) =>
        /\ store = DefaultStore
        /\ \A f \in TopFields : is_none(cli[f]) => is_none(result.args[f])
        /\ \A sl \in SectionLeaves :
               is_none(LeafOf(cli, sl[1], sl[2])) => is_none(LeafOf(result.args, sl[1], sl[2]))
        /\ is_none(cli.cellapi) => flat.cellapi = Panicked
        /\ \A sl \in SectionLeaves :
               (Unwrapped(cli, sl[1], sl[2]) /\ is_none(LeafOf(cli, sl[1], sl[2])))
                   => flat[Component(sl[1])] = Panicked
        /\ \E k \in DOMAIN flat : flat[k] = Panicked

\* C8 witness: the load failed, the command line gave the scenario
\* perform-measurement and nothing else, the store was seeded and no part of
\* the working configuration could be flattened.
C8_Witness ==
    /\ pc = "flattened"
    /\ result.load = "failed"
    /\ cli = ParseArgs(Some("PerformMeasurement"), None, None, {})
    /\ store = DefaultStore
    /\ result.args = cli
    /\ \A k \in DOMAIN flat : flat[k] = Panicked

\* The command line of the second scenario of the spec's testable properties.
DciOnlyCli == ParseArgs(Some("TrackCellDciOnly"), Some("Milesight"), Some(TRUE), {})

\* C9: with the Default Table record in the store and the command line
\* scenario = track-cell-dci-only, cellapi = Milesight, verbose = true, the
\* resolved scalars are the command line's, every section is the Default
\* Table's, and flattening succeeds everywhere and yields the Milesight
\* variant with the default milesight values.
C9_DciOnlyOverDefaults ==
    (Merged /\ store = DefaultStore /\ cli = DciOnlyCli) =>
        /\ result.args.scenario = Some("TrackCellDciOnly")
        /\ result.args.cellapi = Some("Milesight")
        /\ result.args.verbose = Some(TRUE)
        /\ \A s \in Sections : result.args[s] = ArgumentsDefault[s]
        /\ pc = "flattened" =>
              /\ \A k \in DOMAIN flat : flat[k] # Panicked
              /\ flat.cellapi = Ok([ variant           |-> "Milesight",
                                     milesight_address |-> DEFAULT_MILESIGHT_ADDRESS,
                                     milesight_user    |-> DEFAULT_MILESIGHT_USER,
                                     milesight_auth    |-> DEFAULT_MILESIGHT_AUTH ])

\* C9 witness: that run, flattened.
C9_Witness ==
    /\ pc = "flattened"
    /\ Merged
    /\ store = DefaultStore
    /\ cli = DciOnlyCli
    /\ is_some(flat.cellapi)
    /\ is_some(flat.download)

\* C10: the Default Table stored, loaded and resolved against a command line
\* that gives nothing is the Default Table again, leaf for leaf.
C10_DefaultRoundTrip ==
    (Merged /\ store = DefaultStore /\ cli = EmptyArguments) => result.args = ArgumentsDefault

\* C10 witness: an empty command line resolved against the Default Table record.
C10_Witness ==
    /\ pc = "built"
    /\ Merged
    /\ store = DefaultStore
    /\ cli = EmptyArguments
    /\ Complete(result.args)

\* The sections flattened whatever the data source and the scenario are.
UnconditionalSections == {"ngscope", "rntimatching", "model", "log", "download"}

\* C11: flattening does not look at the scenario. For each of the three
\* scenario values, flattening a present ngscope, rntimatching, model, log or
\* download section fails exactly when a leaf it unwraps is unspecified (so the
\* log section fails when log_base_dir is unspecified), and flattening the
\* same configuration under any other scenario value fails for the same
\* sections.
C11_ScenarioAgnosticFlatten ==
    pc = "flattened" =>
        /\ \A s \in UnconditionalSections :
               is_some(result.args[s]) =>
                   (flat[s] = Panicked <=>
                        \E l \in LeafNames(s) :
                            Unwrapped(result.args, s, l) /\ is_none(unwrap(result.args[s])[l]))
        /\ \A sc \in Scenario :
               LET other == FlattenAll([ result.args EXCEPT !.scenario = Some(sc) ])
               IN  \A s \in UnconditionalSections :
                       (other[s] = Panicked) <=> (flat[s] = Panicked)

\* C11 witness: under the scenario track-cell-dci-only the log section is
\* present with log_base_dir unspecified; flattening it failed while ngscope
\* and download were flattened.
C11_Witness ==
    /\ pc = "flattened"
    /\ result.args.scenario = Some("TrackCellDciOnly")
    /\ result.args.log = Some(EmptySection("log"))
    /\ flat.log = Panicked
    /\ flat.ngscope # Panicked
    /\ flat.download # Panicked

\* C12: a failed load is not what build returns. It leads to the seeding
\* write: when the write succeeded the store holds the Default Table and build
\* returned a configuration unless the diagnostic print failed; when the write
\* failed build returned an error and no configuration, and the caller has
\* nothing to flatten.
C12_FailedLoadRecoverableWriteFatal ==
    (pc \in {"built", "flattened"} /\ result.load = "failed") =>
        /\ result.status \in {"ok", "err"}
        /\ store.kind = "record" =>
               /\ store = DefaultStore
               /\ result.status = "err" => print_config_file_prints(cli)
               /\ result.status = "ok" => result.args = cli
        /\ store.kind # "record" =>
               /\ result.status = "err"
               /\ result.args = EmptyArguments
               /\ pc = "built"
               /\ flat = NotFlattened

\* C12 witness: the record could not be deserialized, the seeding write
\* failed, and build returned an error for a command line that asked for
\* perform-measurement without printing.
C12_Witness ==
    /\ pc = "built"
    /\ result.load = "failed"
    /\ result.status = "err"
    /\ store = StoreUnreadable
    /\ cli = ParseArgs(Some("PerformMeasurement"), None, Some(FALSE), {})
    /\ result.args = EmptyArguments

\* C13: after a successful load, a run whose command line names one of the
\* six filled sections while the loaded record has no such section ends in a
\* panic, and returns no configuration; a successful load ends in a panic in
\* no other case (a section the command line does not name is adopted as the
\* record has it, missing or not).
C13_MissingSectionFatal ==
    (pc \in {"built", "flattened"} /\ result.load = "ok") =>
        /\ \A s \in FilledSections :
               (is_some(cli[s]) /\ is_none(store.doc[s])) =>
                   /\ result.status = "panic"
                   /\ result.args = EmptyArguments
                   /\ pc = "built"
        /\ result.status = "panic" =>
               \E s \in FilledSections : is_some(cli[s]) /\ is_none(store.doc[s])
        /\ result.status = "ok" =>
               \A s \in FilledSections : is_none(cli[s]) => result.args[s] = store.doc[s]

\* C13 witness: the record has no model section, the command line gives
\* model_log_metric, and the run panicked.
C13_Witness ==
    /\ pc = "built"
    /\ result.load = "ok"
    /\ store = StoreRecord(WithoutSection(ArgumentsDefault, "model"))
    /\ LeafOf(cli, "model", "model_log_metric") = Some(FALSE)
    /\ result.status = "panic"

\* C14: the command line is parsed before the store is touched. A run that
\* ends in a parse error starts from the beginning of build, leaves the store
\* exactly as it was (no load, so no record created, and no seeding), returns
\* no configuration, and nothing is flattened afterwards.
C14_ParseErrorBeforeStore ==
    [][ /\ result'.status = "parse_error" =>
              /\ pc = "start" => (pc' = "built" /\ store' = store)
              /\ result'.load = "none"
              /\ result'.args = EmptyArguments
              /\ flat' = NotFlattened
        /\ result.status = "parse_error" =>
              /\ store' = store
              /\ pc' # "flattened" ]_vars

\* C14 witness: a run ended in a parse error while no record exists; the store
\* is still absent.
C14_Witness ==
    /\ pc = "built"
    /\ result.status = "parse_error"
    /\ result.load = "none"
    /\ store = StoreAbsent
    /\ flat = NotFlattened

====
